---- MODULE Spec2Model ----
(***************************************************************************)
(* The css selector builder of src/task/08-objects-tasks.js:               *)
(* MySuperBaseElementSelector (fields line and prev) and the facade        *)
(* cssSelectorBuilder.  Text is a sequence of one-character strings, so    *)
(* that concatenation, prefixes and lengths are those of the js strings.   *)
(***************************************************************************)
EXTENDS Integers, Sequences, FiniteSets, TLC

\* ------------------------------------------------------------------ bounds
\* builders that exist at once
MaxObjs == 3
\* fragments appended over all builders (every accepted setSelector is one)
MaxFragments == 3

\* the values and the combinators the calls are made with
Values == { <<"a">>, <<"b">> }
Combinators == { <<"+">>, <<" ">> }

\* ------------------------------------------------- the class, as operators
\* a parameter the caller leaves out, js undefined, as a number no rank uses
Undefined == -2

\* variant: >= where the code has >
JsGt_Ge(a, b) == a # Undefined /\ b # Undefined /\ a >= b

\* this.prev > number: a comparison with undefined is false
JsGt(a, b) == a # Undefined /\ b # Undefined /\ a > b

\* the constructor
MySuperBaseElementSelector == [line |-> <<>>, prev |-> -1]

\* variant: the order of the fragments is not checked
checkOnErrors_NoOrder(self, number, canDuplicate) ==
    IF self.prev = number /\ ~canDuplicate THEN "dup" ELSE "ok"

\* variant: the duplicate error is thrown for a fragment out of order too
checkOnErrors_OneError(self, number, canDuplicate) ==
    IF JsGt(self.prev, number) THEN "dup"
    ELSE IF self.prev = number /\ ~canDuplicate THEN "dup"
    ELSE "ok"

\* the error checkOnErrors throws, "ok" when it returns
checkOnErrors(self, number, canDuplicate) ==
    IF JsGt(self.prev, number) THEN "order"
    ELSE IF self.prev = number /\ ~canDuplicate THEN "dup"
    ELSE "ok"

\* variant: line = selector where the code has line += selector
setSelector_Overwrite(self, selector, prev, canDuplicate) ==
    LET e == checkOnErrors(self, prev, canDuplicate) IN
    IF e # "ok"
    THEN [self |-> self, err |-> e]
    ELSE [self |-> [line |-> selector, prev |-> prev], err |-> "ok"]

\* variant: prev and line are assigned before checkOnErrors is called
setSelector_AssignFirst(self, selector, prev, canDuplicate) ==
    [self |-> [line |-> self.line \o selector, prev |-> prev],
     err |-> checkOnErrors(self, prev, canDuplicate)]

\* variant: line = selector + line where the code has line += selector
setSelector_Prepend(self, selector, prev, canDuplicate) ==
    LET e == checkOnErrors(self, prev, canDuplicate) IN
    IF e # "ok"
    THEN [self |-> self, err |-> e]
    ELSE [self |-> [line |-> selector \o self.line, prev |-> prev], err |-> "ok"]

\* the builder after the call (unchanged when it throws) and the error
setSelector(self, selector, prev, canDuplicate) ==
    LET e == checkOnErrors(self, prev, canDuplicate) IN
    IF e # "ok"
    THEN [self |-> self, err |-> e]
    ELSE [self |-> [line |-> self.line \o selector, prev |-> prev], err |-> "ok"]

\* variant: element with the canDuplicate argument
element_CanDuplicate(self, selector) == setSelector(self, selector, 1, TRUE)

element(self, selector) == setSelector(self, selector, 1, FALSE)

id(self, selector) == setSelector(self, <<"#">> \o selector, 2, FALSE)

\* variant: class without the canDuplicate argument
class_NoDuplicates(self, selector) == setSelector(self, <<".">> \o selector, 3, FALSE)

class(self, selector) == setSelector(self, <<".">> \o selector, 3, TRUE)

attr(self, selector) == setSelector(self, <<"[">> \o selector \o <<"]">>, 4, TRUE)

pseudoClass(self, selector) == setSelector(self, <<":">> \o selector, 5, TRUE)

\* variant: one colon
pseudoElement_OneColon(self, selector) == setSelector(self, <<":">> \o selector, 6, FALSE)

pseudoElement(self, selector) == setSelector(self, <<":", ":">> \o selector, 6, FALSE)

\* variant: no spaces around the combinator
combine_NoSpaces(self, selector1, combinator, selector2) ==
    setSelector(self, selector1.line \o combinator \o selector2.line, Undefined, FALSE)

\* variant: combine keeps the receiver's prev
combine_KeepPrev(self, selector1, combinator, selector2) ==
    setSelector(self,
                selector1.line \o <<" ">> \o combinator \o <<" ">> \o selector2.line,
                self.prev, TRUE)

\* variant: combine takes a rank of its own, above pseudoElement
combine_Closed(self, selector1, combinator, selector2) ==
    setSelector(self,
                selector1.line \o <<" ">> \o combinator \o <<" ">> \o selector2.line,
                7, FALSE)

\* setSelector is called with one argument: prev and canDuplicate are undefined
combine(self, selector1, combinator, selector2) ==
    setSelector(self,
                selector1.line \o <<" ">> \o combinator \o <<" ">> \o selector2.line,
                Undefined, FALSE)

\* variant: stringify empties the builder
stringify_Consume(self) == [self |-> [self EXCEPT !.line = <<>>], out |-> self.line]

\* variant: stringify closes the builder to further fragments
stringify_Close(self) == [self |-> [self EXCEPT !.prev = 7], out |-> self.line]

\* the builder after the call and the text returned
stringify(self) == [self |-> self, out |-> self.line]

\* ------------------------------------------------------------------- state
VARIABLES
    objs,   \* the builders constructed so far, in order of construction
    hist,   \* per builder, the calls accepted on it: [op, val], in call order
    last    \* the call made last: arguments, outcome, the builder before it

vars == <<objs, hist, last>>

Ids == 1..Len(objs)

\* the record of a call.  read: the call before it was a stringify of the same
\* builder, and seen is the text that stringify returned
Record(op, facade, o, value, a, c, b, res, ret, out, pre) ==
    [op |-> op, facade |-> facade, obj |-> o, val |-> value,
     a |-> a, c |-> c, b |-> b,
     res |-> res, ret |-> ret, out |-> out,
     preLine |-> pre.line, prePrev |-> pre.prev,
     read |-> ~facade /\ last.op = "stringify" /\ last.obj = o,
     seen |-> IF ~facade /\ last.op = "stringify" /\ last.obj = o THEN last.out ELSE <<>>]

NoCall ==
    [op |-> "none", facade |-> FALSE, obj |-> 0, val |-> <<>>,
     a |-> 0, c |-> <<>>, b |-> 0,
     res |-> "ok", ret |-> 0, out |-> <<>>,
     preLine |-> <<>>, prePrev |-> -1, read |-> FALSE, seen |-> <<>>]

RECURSIVE SumLen(_, _)
SumLen(h, n) == IF n = 0 THEN 0 ELSE Len(h[n]) + SumLen(h, n - 1)

\* the fragments appended so far, over all builders
Fragments == SumLen(hist, Len(hist))

Init ==
    /\ objs = <<>>
    /\ hist = <<>>
    /\ last = NoCall

\* variant: prev is kept in one place for all builders (on the prototype)
Call_SharedPrev(o, op, value, r, a, c, b) ==
    /\ r.err = "ok" => Fragments < MaxFragments
    /\ objs' = [x \in Ids |->
                  IF x = o THEN r.self ELSE [objs[x] EXCEPT !.prev = r.self.prev]]
    /\ hist' = IF r.err = "ok"
               THEN [hist EXCEPT ![o] = Append(@, [op |-> op, val |-> value])]
               ELSE hist
    /\ last' = Record(op, FALSE, o, IF r.err = "ok" THEN value ELSE <<>>, a, c, b,
                      r.err, IF r.err = "ok" THEN o ELSE 0, <<>>, objs[o])

\* a method call on builder o, r the result of the class's operator; a call
\* that throws returns nothing (ret = 0)
Call(o, op, value, r, a, c, b) ==
    /\ r.err = "ok" => Fragments < MaxFragments
    /\ objs' = [objs EXCEPT ![o] = r.self]
    /\ hist' = IF r.err = "ok"
               THEN [hist EXCEPT ![o] = Append(@, [op |-> op, val |-> value])]
               ELSE hist
    /\ last' = Record(op, FALSE, o, IF r.err = "ok" THEN value ELSE <<>>, a, c, b,
                      r.err, IF r.err = "ok" THEN o ELSE 0, <<>>, objs[o])

\* variant: the facade keeps one instance and hands it out again
New_Shared(op, value, r, a, c, b) ==
    /\ Len(objs) < MaxObjs
    /\ r.err = "ok" => Fragments < MaxFragments
    /\ objs' = IF Len(objs) = 0 THEN Append(objs, r.self)
               ELSE [objs EXCEPT ![1] = [line |-> @.line \o r.self.line, prev |-> r.self.prev]]
    /\ hist' = IF Len(objs) = 0 THEN Append(hist, << [op |-> op, val |-> value] >>)
               ELSE [hist EXCEPT ![1] = Append(@, [op |-> op, val |-> value])]
    /\ last' = Record(op, TRUE, 0, value, a, c, b, r.err, 1, <<>>,
                      MySuperBaseElementSelector)

\* variant: the facade's combine is selector1.combine(...), no new builder
New_OnArgument(op, value, r, a, c, b) ==
    /\ Len(objs) < MaxObjs
    /\ r.err = "ok" => Fragments < MaxFragments
    /\ objs' = IF op = "combine"
               THEN [objs EXCEPT ![a] = [line |-> @.line \o r.self.line, prev |-> r.self.prev]]
               ELSE Append(objs, r.self)
    /\ hist' = IF op = "combine"
               THEN [hist EXCEPT ![a] = Append(@, [op |-> op, val |-> value])]
               ELSE Append(hist, << [op |-> op, val |-> value] >>)
    /\ last' = Record(op, TRUE, 0, value, a, c, b, r.err,
                      IF op = "combine" THEN a ELSE Len(objs) + 1, <<>>,
                      MySuperBaseElementSelector)

\* a facade call: new MySuperBaseElementSelector() and the method on it
New(op, value, r, a, c, b) ==
    /\ Len(objs) < MaxObjs
    /\ r.err = "ok" => Fragments < MaxFragments
    /\ objs' = IF r.err = "ok" THEN Append(objs, r.self) ELSE objs
    /\ hist' = IF r.err = "ok"
               THEN Append(hist, << [op |-> op, val |-> value] >>)
               ELSE hist
    /\ last' = Record(op, TRUE, 0, IF r.err = "ok" THEN value ELSE <<>>, a, c, b,
                      r.err, IF r.err = "ok" THEN Len(objs) + 1 ELSE 0, <<>>,
                      MySuperBaseElementSelector)

\* ----------------------------------------------------- the builder's methods
Element(o, v) == Call(o, "element", v, element(objs[o], v), 0, <<>>, 0)

Id(o, v) == Call(o, "id", v, id(objs[o], v), 0, <<>>, 0)

Class(o, v) == Call(o, "class", v, class(objs[o], v), 0, <<>>, 0)

Attr(o, v) == Call(o, "attr", v, attr(objs[o], v), 0, <<>>, 0)

PseudoClass(o, v) == Call(o, "pseudoClass", v, pseudoClass(objs[o], v), 0, <<>>, 0)

PseudoElement(o, v) == Call(o, "pseudoElement", v, pseudoElement(objs[o], v), 0, <<>>, 0)

Combine(o, a, c, b) == Call(o, "combine", <<>>, combine(objs[o], objs[a], c, objs[b]), a, c, b)

Stringify(o) ==
    LET r == stringify(objs[o]) IN
    /\ objs' = [objs EXCEPT ![o] = r.self]
    /\ UNCHANGED hist
    /\ last' = Record("stringify", FALSE, o, <<>>, 0, <<>>, 0, "ok", 0, r.out, objs[o])

\* ------------------------------------------------------ cssSelectorBuilder
FacadeElement(v) == New("element", v, element(MySuperBaseElementSelector, v), 0, <<>>, 0)

FacadeId(v) == New("id", v, id(MySuperBaseElementSelector, v), 0, <<>>, 0)

FacadeClass(v) == New("class", v, class(MySuperBaseElementSelector, v), 0, <<>>, 0)

FacadeAttr(v) == New("attr", v, attr(MySuperBaseElementSelector, v), 0, <<>>, 0)

FacadePseudoClass(v) == New("pseudoClass", v, pseudoClass(MySuperBaseElementSelector, v), 0, <<>>, 0)

FacadePseudoElement(v) == New("pseudoElement", v, pseudoElement(MySuperBaseElementSelector, v), 0, <<>>, 0)

FacadeCombine(a, c, b) ==
    New("combine", <<>>, combine(MySuperBaseElementSelector, objs[a], c, objs[b]), a, c, b)

Next ==
    \/ \E v \in Values : FacadeElement(v)
    \/ \E v \in Values : FacadeId(v)
    \/ \E v \in Values : FacadeClass(v)
    \/ \E v \in Values : FacadeAttr(v)
    \/ \E v \in Values : FacadePseudoClass(v)
    \/ \E v \in Values : FacadePseudoElement(v)
    \/ \E a \in Ids, b \in Ids, c \in Combinators : FacadeCombine(a, c, b)
    \/ \E o \in Ids, v \in Values : Element(o, v)
    \/ \E o \in Ids, v \in Values : Id(o, v)
    \/ \E o \in Ids, v \in Values : Class(o, v)
    \/ \E o \in Ids, v \in Values : Attr(o, v)
    \/ \E o \in Ids, v \in Values : PseudoClass(o, v)
    \/ \E o \in Ids, v \in Values : PseudoElement(o, v)
    \/ \E o \in Ids, a \in Ids, b \in Ids, c \in Combinators : Combine(o, a, c, b)
    \/ \E o \in Ids : Stringify(o)

Spec == Init /\ [][Next]_vars

TypeOK ==
    /\ Len(objs) <= MaxObjs
    /\ Len(hist) = Len(objs)
    /\ \A o \in Ids : objs[o].prev \in {Undefined} \cup (1..6)
    /\ last.res \in {"ok", "order", "dup"}

\* ------------------------------------------------------------- the claims
\* the categories, their ranks and renderings as the specification lists them
Categories == {"element", "id", "class", "attr", "pseudoClass", "pseudoElement"}

RankOf(op) ==
    CASE op = "element" -> 1
      [] op = "id" -> 2
      [] op = "class" -> 3
      [] op = "attr" -> 4
      [] op = "pseudoClass" -> 5
      [] op = "pseudoElement" -> 6

OnceOnly == {"element", "id", "pseudoElement"}

Rendering(op, v) ==
    CASE op = "element" -> v
      [] op = "id" -> <<"#">> \o v
      [] op = "class" -> <<".">> \o v
      [] op = "attr" -> <<"[">> \o v \o <<"]">>
      [] op = "pseudoClass" -> <<":">> \o v
      [] op = "pseudoElement" -> <<":", ":">> \o v

RECURSIVE RenderAll(_)
RenderAll(h) ==
    IF h = <<>> THEN <<>>
    ELSE Rendering(Head(h).op, Head(h).val) \o RenderAll(Tail(h))

\* a builder made by a category entry point and extended by category calls only
OnlyCategories(o) == \A i \in 1..Len(hist[o]) : hist[o][i].op \in Categories

\* the last call is a category method called on an existing builder
CategoryCall == last.op \in Categories /\ ~last.facade

\* the calls accepted on the receiver before the last call
PreHist ==
    IF last.res = "ok"
    THEN SubSeq(hist[last.obj], 1, Len(hist[last.obj]) - 1)
    ELSE hist[last.obj]

\* the call accepted last on the receiver before the last call
PreOp == PreHist[Len(PreHist)].op

IsPrefix(s, t) == Len(s) <= Len(t) /\ SubSeq(t, 1, Len(s)) = s

IsSuffix(s, t) == Len(s) <= Len(t) /\ SubSeq(t, Len(t) - Len(s) + 1, Len(t)) = s

\* C1: on a builder driven by category calls and stringify only, the ranks of
\* the accepted calls, in call order, never decrease, and a rank occurs twice
\* only if it is the rank of class, attr or pseudoClass.
C1_RanksNonDecreasing ==
    \A o \in Ids : OnlyCategories(o) =>
        \A i \in 1..Len(hist[o]) : \A j \in 1..Len(hist[o]) :
            i < j =>
                /\ RankOf(hist[o][i].op) <= RankOf(hist[o][j].op)
                /\ RankOf(hist[o][i].op) = RankOf(hist[o][j].op)
                       => RankOf(hist[o][i].op) \in {3, 4, 5}

\* a builder with three accepted fragments, one category repeated, seen by stringify
C1_Witness ==
    /\ last.op = "stringify"
    /\ OnlyCategories(last.obj)
    /\ Len(hist[last.obj]) = 3
    /\ hist[last.obj][2].op = hist[last.obj][3].op
    /\ hist[last.obj][1].op # hist[last.obj][2].op

\* the next call of category op is valid after the accepted calls h
ValidNext(h, op) ==
    \/ h = <<>>
    \/ RankOf(h[Len(h)].op) < RankOf(op)
    \/ RankOf(h[Len(h)].op) = RankOf(op) /\ op \notin OnceOnly

\* C2: a chain of category calls with non-decreasing ranks, repeating only class,
\* attr and pseudoClass, raises no error, and stringify returns the renderings of
\* its fragments concatenated in call order.
C2_ValidChainRenders ==
    /\ \A o \in Ids : OnlyCategories(o) => objs[o].line = RenderAll(hist[o])
    /\ (last.op = "stringify" /\ OnlyCategories(last.obj))
           => last.out = RenderAll(hist[last.obj])
    /\ (last.op \in Categories /\ last.facade) => last.res = "ok"
    /\ (CategoryCall /\ OnlyCategories(last.obj) /\ ValidNext(PreHist, last.op))
           => last.res = "ok"

\* id('a').class('a').class('b').stringify() returned '#a.a.b'
C2_Witness ==
    /\ last.op = "stringify"
    /\ hist[last.obj] = << [op |-> "id", val |-> <<"a">>],
                           [op |-> "class", val |-> <<"a">>],
                           [op |-> "class", val |-> <<"b">>] >>
    /\ last.out = <<"#", "a", ".", "a", ".", "b">>

\* C3: a category call of rank r on a builder whose last appended rank p is
\* greater than r fails with the order error, never with the duplicate error.
C3_OrderError ==
    (CategoryCall /\ PreOp \in Categories /\ RankOf(PreOp) > RankOf(last.op))
        => last.res = "order"

\* id after class was refused with the order error
C3_Witness ==
    /\ CategoryCall
    /\ last.op = "id"
    /\ PreOp = "class"
    /\ last.res = "order"

\* C4: a category call of the rank appended last fails with the duplicate error
\* exactly for element, id and pseudoElement (stringify calls between the two
\* make no difference); for class, attr and pseudoClass it succeeds and both
\* fragments are in the rendered text in call order.
C4_DuplicateError ==
    (CategoryCall /\ PreOp = last.op) =>
        /\ last.op \in OnceOnly => last.res = "dup"
        /\ last.op \notin OnceOnly =>
              /\ last.res = "ok"
              /\ IsSuffix(Rendering(last.op, PreHist[Len(PreHist)].val)
                              \o Rendering(last.op, last.val),
                          objs[last.obj].line)

\* element twice with a stringify between them: the second was refused
C4_Witness ==
    /\ CategoryCall
    /\ last.op = "element"
    /\ PreOp = "element"
    /\ last.read
    /\ last.res = "dup"

\* class twice: accepted, '.a.b' rendered
C4_WitnessAllowed ==
    /\ CategoryCall
    /\ last.op = "class"
    /\ PreOp = "class"
    /\ last.res = "ok"
    /\ objs[last.obj].line = <<".", "a", ".", "b">>

\* the text of a combine argument before the call (the receiver may be one)
ArgLine(x) == IF ~last.facade /\ x = last.obj THEN last.preLine ELSE objs[x].line

\* what a combine call appends
Joined == ArgLine(last.a) \o <<" ">> \o last.c \o <<" ">> \o ArgLine(last.b)

\* C5: the facade's combine(a, c, b) never raises, whatever a and b are (results
\* of earlier combines too), and stringify of its result is
\* a.stringify() + ' ' + c + ' ' + b.stringify(), one space on each side of c.
C5_FacadeCombine ==
    (last.op = "combine" /\ last.facade) =>
        /\ last.res = "ok"
        /\ last.ret = Len(objs)
        /\ stringify(objs[last.ret]).out =
               stringify(objs[last.a]).out \o <<" ">> \o last.c \o <<" ">>
                   \o stringify(objs[last.b]).out

\* a combine of a combine, the combinator a space: three spaces in a row
C5_Witness ==
    /\ last.op = "combine"
    /\ last.facade
    /\ last.res = "ok"
    /\ hist[last.a][1].op = "combine"
    /\ last.c = <<" ">>
    /\ objs[last.ret].line = objs[last.a].line \o <<" ", " ", " ">> \o objs[last.b].line

\* C6 as stated: combine, on any builder, returns a builder other than the
\* receiver whose text is exactly A + ' ' + c + ' ' + B and leaves the receiver's
\* text as it was; the category operations return the receiver.
C6_Original ==
    /\ (last.op = "combine" /\ ~last.facade) =>
          /\ last.res = "ok"
          /\ last.ret # last.obj
          /\ objs[last.ret].line = Joined
          /\ objs[last.obj].line = last.preLine
    /\ (CategoryCall /\ last.res = "ok") => last.ret = last.obj

\* C6 amended: the builder's combine appends A + ' ' + c + ' ' + B to the
\* receiver's text and returns the receiver (it fails with the duplicate error,
\* changing nothing, when the call accepted last on the receiver was a combine);
\* on the new builder of the facade the text is exactly A + ' ' + c + ' ' + B and
\* the builder returned is new; the category operations return the receiver.
C6_CombineAppendsToReceiver ==
    /\ (last.op = "combine" /\ ~last.facade /\ PreOp # "combine") =>
          /\ last.res = "ok"
          /\ last.ret = last.obj
          /\ objs[last.obj].line = last.preLine \o Joined
    /\ (last.op = "combine" /\ ~last.facade /\ PreOp = "combine") =>
          /\ last.res = "dup"
          /\ objs[last.obj].line = last.preLine
    /\ (last.op = "combine" /\ last.facade) =>
          /\ last.res = "ok"
          /\ last.ret = Len(objs)
          /\ Len(hist[last.ret]) = 1
          /\ objs[last.ret].line = Joined
    /\ (CategoryCall /\ last.res = "ok") => last.ret = last.obj

\* combine on a builder that holds a fragment: the receiver is returned, longer
C6_Witness ==
    /\ last.op = "combine"
    /\ ~last.facade
    /\ last.res = "ok"
    /\ last.ret = last.obj
    /\ Len(last.preLine) > 0
    /\ Len(objs[last.obj].line) > Len(last.preLine)

\* C7 as stated: combine leaves lastCategory alone, so the category call after
\* it is still validated against the rank p appended before the combine.
C7_Original ==
    (/\ CategoryCall
     /\ PreOp = "combine"
     /\ Len(PreHist) >= 2
     /\ PreHist[Len(PreHist) - 1].op \in Categories) =>
        /\ RankOf(PreHist[Len(PreHist) - 1].op) > RankOf(last.op) => last.res = "order"
        /\ (RankOf(PreHist[Len(PreHist) - 1].op) = RankOf(last.op) /\ last.op \in OnceOnly)
               => last.res = "dup"

\* C7 amended: combine unsets the builder's lastCategory: after a combine on a
\* builder the next category call is accepted whatever its rank and whatever
\* rank was appended before the combine.
C7_CombineResetsLastCategory ==
    /\ \A o \in Ids : hist[o][Len(hist[o])].op = "combine" => objs[o].prev = Undefined
    /\ (CategoryCall /\ PreOp = "combine") => last.res = "ok"

\* class, combine, element on one builder: the element was accepted
C7_Witness ==
    /\ CategoryCall
    /\ last.op = "element"
    /\ Len(PreHist) = 2
    /\ PreHist[1].op = "class"
    /\ PreHist[2].op = "combine"
    /\ last.res = "ok"

\* C8: stringify is a pure read: it never raises, it changes neither the text
\* nor lastCategory, it returns the text, and a second stringify right after
\* the first returns the same text.
C8_StringifyPure ==
    last.op = "stringify" =>
        /\ last.res = "ok"
        /\ objs[last.obj].line = last.preLine
        /\ objs[last.obj].prev = last.prePrev
        /\ last.out = last.preLine
        /\ last.read => last.out = last.seen

\* two stringify calls in a row on a builder that holds text
C8_Witness ==
    /\ last.op = "stringify"
    /\ last.read
    /\ Len(last.out) >= 2
    /\ last.out = last.seen

\* the outcome the validation gives a call of category op after the calls h
Verdict(h, op) ==
    IF RankOf(h[Len(h)].op) > RankOf(op) THEN "order"
    ELSE IF RankOf(h[Len(h)].op) = RankOf(op) /\ op \in OnceOnly THEN "dup"
    ELSE "ok"

\* C9: stringify does not close the builder: a category call right after a
\* stringify is accepted or refused as the accepted calls alone decide, and when
\* it is accepted the next stringify returns the earlier text with the new
\* fragment appended.
C9_StringifyDoesNotClose ==
    (CategoryCall /\ last.read) =>
        /\ PreOp \in Categories => last.res = Verdict(PreHist, last.op)
        /\ last.res = "ok" =>
              stringify(objs[last.obj]).out = last.seen \o Rendering(last.op, last.val)
        /\ last.res # "ok" => stringify(objs[last.obj]).out = last.seen

\* a fragment accepted right after a stringify
C9_Witness ==
    /\ CategoryCall
    /\ last.read
    /\ last.res = "ok"
    /\ Len(last.seen) > 0
    /\ objs[last.obj].line = last.seen \o Rendering(last.op, last.val)

\* C10: both errors are raised by the offending category call itself, which
\* returns nothing, so that the chain stops there; a category call that offends
\* neither rule is not refused for an earlier one; stringify and the facade's
\* combine never raise.
C10_FailFast ==
    /\ (CategoryCall /\ PreOp \in Categories) =>
          /\ last.res # "ok" <=> ~ValidNext(PreHist, last.op)
          /\ last.res # "ok" => last.ret = 0
    /\ last.op = "stringify" => last.res = "ok"
    /\ (last.op = "combine" /\ last.facade) => last.res = "ok"
    /\ last.res # "ok" => last.ret = 0 /\ ~last.facade

\* the third call of a chain is refused and returns nothing
C10_Witness ==
    /\ CategoryCall
    /\ Len(PreHist) = 2
    /\ OnlyCategories(last.obj)
    /\ last.res = "dup"
    /\ last.ret = 0

\* C11: a category method returns the builder it was called on, and the calls
\* of a chain accumulate in that one builder; every call of a facade entry
\* point returns a builder that did not exist before the call.
C11_SameInstanceNewInstance ==
    [][ /\ (last'.op \in Categories /\ ~last'.facade /\ last'.res = "ok") =>
              /\ last'.ret = last'.obj
              /\ Len(objs') = Len(objs)
              /\ hist'[last'.obj] =
                     Append(hist[last'.obj], [op |-> last'.op, val |-> last'.val])
        /\ (last'.facade /\ last'.res = "ok") =>
              /\ last'.ret = Len(objs) + 1
              /\ Len(objs') = Len(objs) + 1
              /\ \A o \in Ids : objs'[o] = objs[o] /\ hist'[o] = hist[o]
      ]_vars

\* a second facade call after a chain of two calls: a second builder
C11_Witness ==
    /\ last.facade
    /\ last.op \in Categories
    /\ last.ret = 2
    /\ Len(objs) = 2
    /\ Len(hist[1]) = 2
    /\ Len(hist[2]) = 1

\* the builder a category call leaves, by the class's own method
Apply(self, op, v) ==
    CASE op = "element" -> element(self, v).self
      [] op = "id" -> id(self, v).self
      [] op = "class" -> class(self, v).self
      [] op = "attr" -> attr(self, v).self
      [] op = "pseudoClass" -> pseudoClass(self, v).self
      [] op = "pseudoElement" -> pseudoElement(self, v).self

\* the builder the chain of calls h leaves when it runs alone on self
RECURSIVE Replay(_, _)
Replay(self, h) ==
    IF h = <<>> THEN self
    ELSE Replay(Apply(self, Head(h).op, Head(h).val), Tail(h))

\* C12: the facade holds no state: a call, accepted or refused, changes the
\* text and lastCategory of no builder but its receiver, and under any
\* interleaving a chain of category calls leaves its builder as it does when
\* it runs alone on a new builder.
C12_Independent ==
    [][ /\ \A o \in Ids :
              (last'.facade \/ o # last'.obj) => objs'[o] = objs[o]
        /\ \A o \in 1..Len(objs') :
              (\A i \in 1..Len(hist'[o]) : hist'[o][i].op \in Categories)
                  => objs'[o] = Replay(MySuperBaseElementSelector, hist'[o])
      ]_vars

\* two chains interleaved: the first builder extended after the second was made
C12_Witness ==
    /\ CategoryCall
    /\ last.res = "ok"
    /\ last.obj = 1
    /\ Len(objs) = 2
    /\ Len(hist[1]) = 2
    /\ OnlyCategories(1)
    /\ OnlyCategories(2)
    /\ objs[1].prev # objs[2].prev

\* C13: the facade's combine(a, c, b) leaves a and b as they were, and its
\* result holds text of its own: a category call made afterwards on another
\* builder, a and b among them, does not change what stringify of the combined
\* selector returns.
C13_CombineCopies ==
    [][ /\ (last'.op = "combine" /\ last'.facade) =>
              /\ objs'[last'.a] = objs[last'.a]
              /\ objs'[last'.b] = objs[last'.b]
              /\ stringify(objs'[last'.ret]).out =
                     objs[last'.a].line \o <<" ">> \o last'.c \o <<" ">> \o objs[last'.b].line
        /\ \A x \in Ids :
              (/\ hist[x][1].op = "combine"
               /\ last'.op \in Categories
               /\ ~last'.facade
               /\ last'.obj # x)
                  => stringify(objs'[x]).out = stringify(objs[x]).out
      ]_vars

\* builder 2 is combine(1, c, 1); a fragment was then appended to builder 1,
\* and builder 2 still renders the text builder 1 had
C13_Witness ==
    /\ CategoryCall
    /\ last.res = "ok"
    /\ last.obj = 1
    /\ Len(objs) = 2
    /\ hist[2] = << [op |-> "combine", val |-> <<>>] >>
    /\ objs[1].line # last.preLine
    /\ \E c \in Combinators :
          objs[2].line = last.preLine \o <<" ">> \o c \o <<" ">> \o last.preLine

\* the state after cssSelectorBuilder.combine(s, '+', s), s a builder of one
\* fragment of any category, made for the call and not kept
InitCombined ==
    /\ \E op \in Categories :
          objs = << combine(MySuperBaseElementSelector,
                            Apply(MySuperBaseElementSelector, op, <<"a">>), <<"+">>,
                            Apply(MySuperBaseElementSelector, op, <<"a">>)).self >>
    /\ hist = << << [op |-> "combine", val |-> <<>>] >> >>
    /\ last = NoCall

SpecCombined == InitCombined /\ [][Next]_vars

\* C14: on the builder the facade's combine returns, the first category call is
\* accepted whatever its rank and whatever a and b held, and every later
\* category call is validated against the category call accepted before it.
C14_FreshContextAfterCombine ==
    (CategoryCall /\ hist[last.obj][1].op = "combine") =>
        /\ Len(PreHist) = 1 => last.res = "ok"
        /\ (Len(PreHist) >= 2 /\ PreOp \in Categories)
               => last.res = Verdict(PreHist, last.op)

\* combine(...).element(v).id(w): both accepted on the combined builder
C14_Witness ==
    /\ CategoryCall
    /\ last.res = "ok"
    /\ Len(hist[last.obj]) = 3
    /\ hist[last.obj][1].op = "combine"
    /\ hist[last.obj][2].op = "element"
    /\ hist[last.obj][3].op = "id"

\* C15: a category call that fails with the order or the duplicate error leaves
\* the builder as it was (text and lastCategory, so stringify returns the same
\* text), and a call that was valid before the failed call is accepted after it.
C15_FailedCallChangesNothing ==
    [][ /\ (last'.op \in Categories /\ ~last'.facade /\ last'.res # "ok") =>
              /\ objs'[last'.obj].line = objs[last'.obj].line
              /\ objs'[last'.obj].prev = objs[last'.obj].prev
              /\ stringify(objs'[last'.obj]).out = stringify(objs[last'.obj]).out
              /\ hist'[last'.obj] = hist[last'.obj]
        /\ (/\ CategoryCall
            /\ last.res # "ok"
            /\ last'.op \in Categories
            /\ ~last'.facade
            /\ last'.obj = last.obj
            /\ hist[last.obj][Len(hist[last.obj])].op \in Categories
            /\ ValidNext(hist[last.obj], last'.op))
               => last'.res = "ok"
      ]_vars

\* a call refused on a builder of two fragments, which is as it was
C15_Witness ==
    /\ CategoryCall
    /\ last.res \in {"order", "dup"}
    /\ Len(hist[last.obj]) = 2
    /\ objs[last.obj].line = last.preLine
    /\ objs[last.obj].prev = last.prePrev
    /\ Len(last.preLine) >= 3

\* C16: on a builder driven by category calls only, element, id and
\* pseudoElement are each accepted at most once over the builder's life: once
\* one is accepted, every later call of that category fails, whatever calls
\* were accepted between the two.
C16_OnceOnlyForLife ==
    /\ \A o \in Ids : OnlyCategories(o) =>
          \A op \in OnceOnly :
              Cardinality({i \in 1..Len(hist[o]) : hist[o][i].op = op}) <= 1
    /\ (/\ CategoryCall
        /\ OnlyCategories(last.obj)
        /\ last.op \in OnceOnly
        /\ \E i \in 1..Len(PreHist) : PreHist[i].op = last.op)
           => last.res # "ok"

\* element, class, element: the second element was refused
C16_Witness ==
    /\ CategoryCall
    /\ last.op = "element"
    /\ Len(PreHist) = 2
    /\ PreHist[1].op = "element"
    /\ PreHist[2].op = "class"
    /\ last.res # "ok"

\* C17: the rendered text of a builder is append-only: over every operation
\* (category calls accepted or refused, combine, stringify) the text before is
\* a prefix of the text after.
C17_AppendOnly ==
    [][ \A o \in Ids : IsPrefix(objs[o].line, objs'[o].line) ]_vars

\* combine called on a builder that holds text: the text is kept in front
C17_Witness ==
    /\ last.op = "combine"
    /\ ~last.facade
    /\ last.res = "ok"
    /\ last.c = <<" ">>
    /\ Len(last.preLine) >= 2
    /\ IsPrefix(last.preLine, objs[last.obj].line)
    /\ Len(objs[last.obj].line) >= Len(last.preLine) + 5

====
